---- MODULE Spec2Model ----
(***************************************************************************)
(* Model of form-validation.js: the three functions checkMissing,          *)
(* validateEmail and validateForm, the DOMContentLoaded wiring, and the    *)
(* host page that dispatches input and click events to the listeners.      *)
(*                                                                         *)
(* A field value is a sequence of one-character strings; trimming,         *)
(* counting and the number formatting of the status text are computed the  *)
(* way the code computes them.                                             *)
(***************************************************************************)
EXTENDS Integers, Sequences, FiniteSets, TLC

\* ------------------------------------------------------------------ bounds
\* number of required fields other than the email field: 0..MaxOthers
MaxOthers == 1
\* longest value typed into a non-email required field
MaxOtherLen == 1
\* how many characters beyond the email threshold can be typed
MaxPad == 1
\* how many whitespace characters an email value holds at most
MaxSpaces == 1

\* --------------------------------------------------------------- constants
\* validateEmail: emailInput.value.trim().length >= 8
MinEmailLen == 8

\* characters the user types: one whitespace character, one other
Chars == {" ", "x"}
\* what String.prototype.trim strips (the white space of the alphabet)
WhiteSpace == {" ", "\t", "\n"}

\* the texts of the two alerts of validateForm, without their leading pictograph
WarningMsg == "Please complete all required fields and ensure the email has at least 8 characters."
SuccessMsg == "Form submitted successfully!"

VARIABLES
  fields,       \* document.querySelectorAll('.required'), in document order
  messageSpan,  \* document.getElementById('missing-count')
  submitBtn,    \* document.getElementById('submitBtn'): "absent" or "submit"
  listeners,    \* listeners registered with addEventListener
  loaded,       \* DOMContentLoaded has been dispatched
  last          \* what the most recent event did

vars == <<fields, messageSpan, submitBtn, listeners, loaded, last>>

\* ------------------------------------------------------------ DOM helpers
\* String.prototype.trim: strip leading, then trailing white space
RECURSIVE TrimStart(_)
TrimStart(s) ==
  IF s = <<>> THEN s
  ELSE IF Head(s) \in WhiteSpace THEN TrimStart(Tail(s)) ELSE s

RECURSIVE TrimEnd(_)
TrimEnd(s) ==
  IF s = <<>> THEN s
  ELSE IF s[Len(s)] \in WhiteSpace THEN TrimEnd(SubSeq(s, 1, Len(s) - 1)) ELSE s

\* variant: the value is used as typed
trim_None(s) == s

\* variant: String.prototype.trimStart in place of trim
trim_StartOnly(s) == TrimStart(s)

trim(s) == TrimEnd(TrimStart(s))

\* DOMTokenList.contains
classListContains(cl, tok) == \E i \in DOMAIN cl : cl[i] = tok

\* variant: DOMTokenList.toggle in place of add
classListAdd_Toggle(cl, tok) ==
  IF classListContains(cl, tok)
    THEN SelectSeq(cl, LAMBDA t : t # tok)
    ELSE Append(cl, tok)

\* DOMTokenList.add: an ordered set, a token already present is not repeated
classListAdd(cl, tok) ==
  IF classListContains(cl, tok) THEN cl ELSE Append(cl, tok)

\* variant: the token is never removed
classListRemove_Keep(cl, tok) == cl

\* DOMTokenList.remove
classListRemove(cl, tok) == SelectSeq(cl, LAMBDA t : t # tok)

\* template literal `${missingCount}`: decimal digits of a non-negative integer
DigitChar == <<"0", "1", "2", "3", "4", "5", "6", "7", "8", "9">>

RECURSIVE NumberToString(_)
NumberToString(n) ==
  IF n < 10 THEN DigitChar[n + 1]
  ELSE NumberToString(n \div 10) \o DigitChar[(n % 10) + 1]

\* document.getElementById('email'): index of the first element with that id,
\* 0 when there is none
RECURSIVE FirstEmail(_, _)
FirstEmail(fs, i) ==
  IF i > Len(fs) THEN 0
  ELSE IF fs[i].id = "email" THEN i ELSE FirstEmail(fs, i + 1)

getEmailInput(fs) == FirstEmail(fs, 1)

\* ------------------------------------------------------------ checkMissing
\* requiredFields.forEach(field => { if (!field.value.trim()) missingCount++ })
RECURSIVE forEachMissing(_, _, _)
forEachMissing(fs, i, missingCount) ==
  IF i > Len(fs) THEN missingCount
  ELSE forEachMissing(fs, i + 1,
         IF trim(fs[i].value) = <<>> THEN missingCount + 1 ELSE missingCount)

\* variant: the alert branch taken for missingCount > 1
checkMissing_Threshold(fs, span) ==
  LET missingCount == forEachMissing(fs, 1, 0) IN
  [ret  |-> missingCount,
   span |-> IF span.exists
              THEN IF missingCount > 1
                     THEN [span EXCEPT
                             !.textContent = NumberToString(missingCount)
                                               \o " required field(s) still incomplete.",
                             !.color = "red"]
                     ELSE [span EXCEPT
                             !.textContent = "All required fields completed.",
                             !.color = "green"]
              ELSE span]

\* variant: returns 0 at once when the status display is absent
checkMissing_EarlyReturn(fs, span) ==
  LET missingCount == forEachMissing(fs, 1, 0) IN
  IF ~span.exists THEN [ret |-> 0, span |-> span]
  ELSE
  [ret  |-> missingCount,
   span |-> IF missingCount > 0
              THEN [span EXCEPT
                      !.textContent = NumberToString(missingCount)
                                        \o " required field(s) still incomplete.",
                      !.color = "red"]
              ELSE [span EXCEPT
                      !.textContent = "All required fields completed.",
                      !.color = "green"]]

checkMissing(fs, span) ==
  LET missingCount == forEachMissing(fs, 1, 0) IN
  [ret  |-> missingCount,
   span |-> IF span.exists
              THEN IF missingCount > 0
                     THEN [span EXCEPT
                             !.textContent = NumberToString(missingCount)
                                               \o " required field(s) still incomplete.",
                             !.color = "red"]
                     ELSE [span EXCEPT
                             !.textContent = "All required fields completed.",
                             !.color = "green"]
              ELSE span]

\* ----------------------------------------------------------- validateEmail
validateEmail(fs) ==
  LET e == getEmailInput(fs) IN
  IF e = 0 THEN [ret |-> TRUE, fields |-> fs]
  ELSE
    LET isValid == Len(trim(fs[e].value)) >= MinEmailLen IN
    [ret    |-> isValid,
     fields |-> [fs EXCEPT ![e].classList =
                   IF ~isValid THEN classListAdd(@, "invalid")
                               ELSE classListRemove(@, "invalid")]]

\* ------------------------------------------------------------ validateForm
\* The handler never calls preventDefault on the click event.
\* variant: && in place of || in the verdict
validateForm_And(fs, span) ==
  LET m == checkMissing(fs, span)
      v == validateEmail(fs)
  IN [fields |-> v.fields, span |-> m.span,
      missing |-> m.ret, emailOK |-> v.ret,
      alerts |-> IF m.ret > 0 /\ ~v.ret THEN <<WarningMsg>> ELSE <<SuccessMsg>>,
      defaultPrevented |-> FALSE]

validateForm(fs, span) ==
  LET m == checkMissing(fs, span)
      v == validateEmail(fs)
  IN [fields |-> v.fields, span |-> m.span,
      missing |-> m.ret, emailOK |-> v.ret,
      alerts |-> IF m.ret > 0 \/ ~v.ret THEN <<WarningMsg>> ELSE <<SuccessMsg>>,
      defaultPrevented |-> FALSE]

\* ------------------------------------------------------- the input listener
\* field.addEventListener('input', () => { checkMissing();
\*                                         if (field.id === 'email') validateEmail(); })
\* variant: validateEmail called for every field
inputListener_Always(fs, span, i) ==
  LET m == checkMissing(fs, span)
      v == validateEmail(fs)
  IN [fields |-> v.fields, span |-> m.span,
      retMissing |-> <<m.ret>>, retEmail |-> <<v.ret>>]

\* variant: checkMissing only in the else branch of the email test
inputListener_Else(fs, span, i) ==
  IF fs[i].id = "email"
    THEN LET v == validateEmail(fs) IN
         [fields |-> v.fields, span |-> span,
          retMissing |-> <<>>, retEmail |-> <<v.ret>>]
    ELSE LET m == checkMissing(fs, span) IN
         [fields |-> fs, span |-> m.span,
          retMissing |-> <<m.ret>>, retEmail |-> <<>>]

inputListener(fs, span, i) ==
  LET m == checkMissing(fs, span) IN
  IF fs[i].id = "email"
    THEN LET v == validateEmail(fs) IN
         [fields |-> v.fields, span |-> m.span,
          retMissing |-> <<m.ret>>, retEmail |-> <<v.ret>>]
    ELSE [fields |-> fs, span |-> m.span,
          retMissing |-> <<m.ret>>, retEmail |-> <<>>]

\* ---------------------------------------------------------------- the page
\* Record of the most recent event: its type and target, what the calls made by
\* its listener returned (<<>> when not called), the alerts raised, whether the
\* host went on to submit the form, and two facts about the state it started
\* from: the email input carried the invalid marker, and the event changed no
\* value after an event whose listener had run checkMissing.
NoEvent == [event |-> "none", target |-> "", retMissing |-> <<>>, retEmail |-> <<>>,
            alerts |-> <<>>, submitted |-> FALSE, invalidBefore |-> FALSE,
            repeat |-> FALSE]

EmptyInput(id) == [id |-> id, value |-> <<>>, classList |-> <<"required">>]

\* the required inputs of a page: n other inputs, and the email input at
\* position p (absent when p = 0; the last of them otherwise)
Page(n, p) ==
  [i \in 1..(n + (IF p = 0 THEN 0 ELSE 1)) |->
     IF i = p THEN EmptyInput("email") ELSE EmptyInput("other")]

MaxLenOf(f) == IF f.id = "email" THEN MinEmailLen + MaxPad ELSE MaxOtherLen

NumSpaces(s) == Cardinality({i \in DOMAIN s : s[i] \in WhiteSpace})

\* the characters the user can still type at the end of input f
Typeable(f) ==
  IF Len(f.value) >= MaxLenOf(f) THEN {}
  ELSE IF f.id = "email" /\ NumSpaces(f.value) >= MaxSpaces THEN Chars \ WhiteSpace
  ELSE Chars

\* the values one user edit can leave in an input: a character typed at the
\* end, or the last character deleted
Edits(f) ==
  {Append(f.value, c) : c \in Typeable(f)}
  \cup (IF f.value = <<>> THEN {} ELSE {SubSeq(f.value, 1, Len(f.value) - 1)})

HasInvalid(fs) ==
  getEmailInput(fs) # 0 /\ classListContains(fs[getEmailInput(fs)].classList, "invalid")

Init ==
  /\ \E n \in 0..MaxOthers : \E p \in {0, n + 1} : fields = Page(n, p)
  /\ \E ex \in BOOLEAN :
       messageSpan = [exists |-> ex, textContent |-> "", color |-> ""]
  /\ submitBtn \in {"absent", "submit"}
  /\ listeners = {}
  /\ loaded = FALSE
  /\ last = NoEvent

\* document.addEventListener('DOMContentLoaded', ...)
DOMContentLoaded ==
  /\ ~loaded
  /\ loaded' = TRUE
  /\ listeners' = {<<"input", i>> : i \in DOMAIN fields}
                    \cup (IF submitBtn # "absent" THEN {<<"click", 0>>} ELSE {})
  /\ last' = [NoEvent EXCEPT !.event = "DOMContentLoaded"]
  /\ UNCHANGED <<fields, messageSpan, submitBtn>>

\* the user edits required field i; the host dispatches 'input' to its listener
Input(i) ==
  \E v \in Edits(fields[i]) :
    LET fs == [fields EXCEPT ![i].value = v] IN
    IF <<"input", i>> \in listeners
      THEN LET r == inputListener(fs, messageSpan, i) IN
           /\ fields' = r.fields
           /\ messageSpan' = r.span
           /\ last' = [NoEvent EXCEPT !.event = "input", !.target = fields[i].id,
                         !.retMissing = r.retMissing, !.retEmail = r.retEmail,
                         !.invalidBefore = HasInvalid(fields)]
           /\ UNCHANGED <<submitBtn, listeners, loaded>>
      ELSE /\ fields' = fs
           /\ last' = [NoEvent EXCEPT !.event = "input", !.target = fields[i].id]
           /\ UNCHANGED <<messageSpan, submitBtn, listeners, loaded>>

\* the user clicks the submit button; after the listeners ran the host performs
\* the button's default action unless a listener prevented it
Click ==
  /\ submitBtn # "absent"
  /\ IF <<"click", 0>> \in listeners
       THEN LET r == validateForm(fields, messageSpan) IN
            /\ fields' = r.fields
            /\ messageSpan' = r.span
            /\ last' = [NoEvent EXCEPT !.event = "click", !.target = "submitBtn",
                          !.repeat = (last.retMissing # <<>>),
                          !.retMissing = <<r.missing>>, !.retEmail = <<r.emailOK>>,
                          !.alerts = r.alerts,
                          !.submitted = (submitBtn = "submit" /\ ~r.defaultPrevented),
                          !.invalidBefore = HasInvalid(fields)]
       ELSE /\ last' = [NoEvent EXCEPT !.event = "click", !.target = "submitBtn",
                          !.submitted = (submitBtn = "submit")]
            /\ UNCHANGED <<fields, messageSpan>>
  /\ UNCHANGED <<submitBtn, listeners, loaded>>

Next ==
  \/ DOMContentLoaded
  \/ \E i \in DOMAIN fields : Input(i)
  \/ Click

Spec == Init /\ [][Next]_vars

\* ------------------------------------------------- vocabulary of the claims
\* a value with no character other than white space
Blank(s) == \A i \in DOMAIN s : s[i] \in WhiteSpace

\* number of required fields that are empty once white space around is removed
NumBlank(fs) == Cardinality({i \in DOMAIN fs : Blank(fs[i].value)})

\* length from the first to the last character that is not white space
TrimmedLength(s) ==
  LET ink == {i \in DOMAIN s : s[i] \notin WhiteSpace} IN
  IF ink = {} THEN 0
  ELSE (CHOOSE hi \in ink : \A k \in ink : k <= hi)
         - (CHOOSE lo \in ink : \A k \in ink : lo <= k) + 1

EmailExists == \E i \in DOMAIN fields : fields[i].id = "email"

EmailField == fields[CHOOSE i \in DOMAIN fields : fields[i].id = "email"]

\* number of times the invalid marker occurs in a class list
MarkerCount(cl) == Cardinality({i \in DOMAIN cl : cl[i] = "invalid"})

\* the status display as the documentation describes it for a missing count
IncompleteText ==
  <<"1 required field(s) still incomplete.", "2 required field(s) still incomplete.",
    "3 required field(s) still incomplete.", "4 required field(s) still incomplete.",
    "5 required field(s) still incomplete.">>

ExpectedStatus(n) ==
  IF n = 0
    THEN [exists |-> TRUE, textContent |-> "All required fields completed.",
          color |-> "green"]
    ELSE [exists |-> TRUE, textContent |-> IncompleteText[n], color |-> "red"]

Values(fs) == [i \in DOMAIN fs |-> fs[i].value]
ClassLists(fs) == [i \in DOMAIN fs |-> fs[i].classList]

\* the listener of the click ran, that is validateForm was invoked
FormValidated == last.event = "click" /\ last.retMissing # <<>>

\* ------------------------------------------------------------------ claims
\* C1: a click on the submit trigger runs checkMissing and validateEmail and
\* raises exactly one notification: the success notification if and only if no
\* required field is blank and the email check returned true, the warning
\* otherwise.
C1_SubmitVerdict ==
  (last.event = "click" /\ loaded) =>
    /\ Len(last.retMissing) = 1 /\ Len(last.retEmail) = 1
    /\ last.retEmail[1] = (~EmailExists \/ TrimmedLength(EmailField.value) >= MinEmailLen)
    /\ Len(last.alerts) = 1
    /\ last.alerts[1] \in {WarningMsg, SuccessMsg}
    /\ last.alerts[1] = SuccessMsg <=> (NumBlank(fields) = 0 /\ last.retEmail[1])

\* Scenario C: every required field filled, the email too short, the warning
C1_Witness ==
  /\ FormValidated /\ EmailExists /\ Len(fields) >= 2
  /\ NumBlank(fields) = 0
  /\ TrimmedLength(EmailField.value) < MinEmailLen
  /\ last.alerts = <<WarningMsg>>
  /\ HasInvalid(fields)

\* C2: after the script is wired, no click on the submit trigger lets the
\* form's submission proceed while a required field is blank or the trimmed
\* email is shorter than 8 characters.
C2_SubmissionGated ==
  (loaded /\ last.submitted) =>
    /\ NumBlank(fields) = 0
    /\ (EmailExists => TrimmedLength(EmailField.value) >= MinEmailLen)

\* C3: checkMissing returns exactly the number of required fields whose value
\* is empty after removing leading and trailing white space, a number between
\* 0 and the number of required fields.
C3_MissingCount ==
  last.retMissing # <<>> =>
    /\ last.retMissing[1] = NumBlank(fields)
    /\ last.retMissing[1] \in 0..Len(fields)

\* a field of white space only was counted, a field with other text was not
C3_Witness ==
  /\ last.retMissing = <<1>>
  /\ \E i \in DOMAIN fields : fields[i].value # <<>> /\ Blank(fields[i].value)
  /\ \E i \in DOMAIN fields : ~Blank(fields[i].value)

\* C4: when the email field exists, validateEmail returns true if and only if
\* the length of the value without its leading and trailing white space is at
\* least 8; padding with white space does not make a short email valid.
C4_EmailLength ==
  (last.retEmail # <<>> /\ EmailExists) =>
    (last.retEmail[1] <=> TrimmedLength(EmailField.value) >= MinEmailLen)

\* 7 characters padded to the threshold with white space: invalid
C4_Witness ==
  /\ EmailExists
  /\ last.retEmail = <<FALSE>>
  /\ Len(EmailField.value) >= MinEmailLen
  /\ TrimmedLength(EmailField.value) = MinEmailLen - 1

\* C5: when checkMissing has run and the status display exists, the display
\* shows "<count> required field(s) still incomplete." in red for a count
\* above 0 and "All required fields completed." in green for 0, whatever it
\* showed before.
C5_StatusRendered ==
  (last.retMissing # <<>> /\ messageSpan.exists) =>
    messageSpan = ExpectedStatus(last.retMissing[1])

C5_Witness ==
  /\ last.retMissing = <<1>>
  /\ messageSpan.exists
  /\ messageSpan.textContent = "1 required field(s) still incomplete."
  /\ messageSpan.color = "red"

\* C6: when validateEmail has run and the email field exists, the invalid
\* marker is on the email field exactly once if the call returned false and
\* not at all if it returned true, whatever the field carried before.
C6_MarkerFollowsResult ==
  (last.retEmail # <<>> /\ EmailExists) =>
    MarkerCount(EmailField.classList) = (IF last.retEmail[1] THEN 0 ELSE 1)

\* the marker was set and the email became valid: the marker is gone
C6_Witness ==
  /\ EmailExists
  /\ last.invalidBefore
  /\ last.retEmail = <<TRUE>>
  /\ MarkerCount(EmailField.classList) = 0

\* C7: a missing element only omits the effect that depends on it: without
\* the status display checkMissing returns the right count and renders
\* nothing; without the email field validateEmail returns true and marks
\* nothing, so validateForm with every required field filled raises the
\* success notification; without the submit trigger no click listener is
\* registered and validateForm never runs.
C7_MissingElements ==
  /\ (~messageSpan.exists /\ last.retMissing # <<>>) =>
       /\ last.retMissing[1] = NumBlank(fields)
       /\ messageSpan = [exists |-> FALSE, textContent |-> "", color |-> ""]
  /\ (~EmailExists /\ last.retEmail # <<>>) =>
       /\ last.retEmail = <<TRUE>>
       /\ \A i \in DOMAIN fields : MarkerCount(fields[i].classList) = 0
  /\ (~EmailExists /\ FormValidated /\ NumBlank(fields) = 0) =>
       last.alerts = <<SuccessMsg>>
  /\ submitBtn = "absent" =>
       /\ <<"click", 0>> \notin listeners
       /\ last.event # "click"
       /\ last.alerts = <<>>

\* Scenario D, on a page without status display: a blank field was counted
\* although nothing could be rendered
C7_Witness ==
  /\ ~messageSpan.exists /\ ~EmailExists
  /\ last.retMissing = <<1>>
  /\ last.alerts = <<WarningMsg>>

\* C8: a call of checkMissing or validateEmail that follows a call of the same
\* function with no field value changed in between returns what that call
\* returned and leaves the status display and the class lists as they were.
C8_Idempotent ==
  [][ (Values(fields') = Values(fields)) =>
        /\ (last.retMissing # <<>> /\ last'.retMissing # <<>>) =>
             /\ last'.retMissing = last.retMissing
             /\ messageSpan' = messageSpan
        /\ (last.retEmail # <<>> /\ last'.retEmail # <<>>) =>
             /\ last'.retEmail = last.retEmail
             /\ ClassLists(fields') = ClassLists(fields) ]_vars

\* both functions ran a second time on an invalid form
C8_Witness ==
  /\ last.repeat /\ last.invalidBefore
  /\ last.retEmail = <<FALSE>> /\ HasInvalid(fields)
  /\ messageSpan.exists /\ messageSpan.color = "red"

\* C9: before DOMContentLoaded no check runs and neither the status display
\* nor a class list changes; afterwards an input event on a required field
\* runs checkMissing, and validateEmail exactly when the field is the email
\* field, so that an input event elsewhere leaves the class lists alone; only
\* a click on the submit trigger raises a notification.
C9_EventWiring ==
  /\ [][ ~loaded' =>
           /\ messageSpan' = messageSpan
           /\ ClassLists(fields') = ClassLists(fields)
           /\ last'.retMissing = <<>> /\ last'.retEmail = <<>>
           /\ last'.alerts = <<>> ]_vars
  /\ [][ (loaded /\ last'.event = "input") =>
           /\ last'.retMissing # <<>>
           /\ (last'.retEmail # <<>>) <=> (last'.target = "email")
           /\ (last'.target # "email") => ClassLists(fields') = ClassLists(fields) ]_vars
  /\ [][ (last'.alerts # <<>> \/ (last'.retMissing # <<>> /\ last'.event # "input")) =>
           (last'.event = "click" /\ last'.target = "submitBtn") ]_vars

\* text typed into another field while the empty email stays unmarked
C9_Witness ==
  /\ loaded /\ EmailExists
  /\ last.event = "input" /\ last.target = "other"
  /\ last.retMissing # <<>> /\ last.retEmail = <<>>
  /\ TrimmedLength(EmailField.value) < MinEmailLen
  /\ ~HasInvalid(fields)

\* C10: after DOMContentLoaded, once the status display has been rendered it
\* shows the current number of blank required fields, and the invalid marker
\* is on the email field only if the email's trimmed length is below 8.
C10_FeedbackFresh ==
  loaded =>
    /\ (messageSpan.exists /\ messageSpan.textContent # "") =>
         messageSpan = ExpectedStatus(NumBlank(fields))
    /\ HasInvalid(fields) => TrimmedLength(EmailField.value) < MinEmailLen

\* the display went from incomplete to complete and the marker was removed
C10_Witness ==
  /\ loaded /\ EmailExists /\ Len(fields) >= 2
  /\ messageSpan.textContent = "All required fields completed."
  /\ last.invalidBefore /\ ~HasInvalid(fields)

====
